---- MODULE Spec2Model ----
(***************************************************************************)
(* toolbox_ML.py: variable typing (describe_df, tipifica_variables),       *)
(* argument validation (check_parametros) and feature screening            *)
(* (get_features_num_regression, get_features_cat_regression),             *)
(* and the plots built on the screening (plot_features_num_regression,     *)
(* plot_features_cat_regression).                                          *)
(*                                                                         *)
(* Units.  Percentages (CARDIN (%), umbral_continua) are integers in       *)
(* hundredths of a percent, the resolution round(..., 2) leaves.  p-values *)
(* and pvalue are in hundredths, umbral_corr in tenths.  Cells of a column *)
(* are integers (strings of an object column are coded by integers), NaN   *)
(* is the null cell.  Arithmetic is exact; the code's floats are not       *)
(* modelled bit by bit.                                                    *)
(***************************************************************************)
EXTENDS Integers, Sequences, FiniteSets, TLC

VARIABLES df, pc, fn, args, verdict, tipos, lista, idx, acc, tests, ret, first,
          columns, passed, inner, plotted

\* what only the plotting functions change
plotvars == <<columns, passed, inner, plotted>>

vars == <<df, pc, fn, args, verdict, tipos, lista, idx, acc, tests, ret, first,
          columns, passed, inner, plotted>>

(* ----------------------------- bounds ---------------------------------- *)

\* rows of every table
NRows == 12
\* columns a table holds besides the column "y"
MaxFeatures == 2

(* ------------------------------ tables --------------------------------- *)

\* the null cell (np.nan / None): never equal to anything, itself included
NaN == -9999

Rows == 1..NRows

\* the columns tables are built from, in the order tables keep them
ColumnOrder == <<"x", "b", "kn", "k", "y", "c", "z", "bn", "e", "ylow">>

ColumnNames == {ColumnOrder[i] : i \in 1..Len(ColumnOrder)}

\* df[col].dtype: "number" is what np.issubdtype(dtype, np.number) accepts
dtype(col) ==
    IF col \in {"x", "y", "z", "e", "ylow"} THEN "number" ELSE "object"

\* df[col]: the cells of a column, row by row
Cell(col, i) ==
    CASE col = "y"    -> IF i = NRows THEN NRows - 1 ELSE i
      [] col = "ylow" -> (i % 5) + 1
      [] col = "x"    -> IF i = 2 THEN NaN ELSE i
      [] col = "z"    -> (i * 5) % 7
      [] col = "b"    -> IF 2 * i <= NRows THEN 1 ELSE 2
      [] col = "bn"   -> IF i = 1 THEN NaN ELSE (i % 2) + 1
      [] col = "k"    -> 1
      [] col = "kn"   -> IF i % 3 = 0 THEN NaN ELSE 1
      [] col = "c"    -> (i % 3) + 1
      [] col = "e"    -> NaN

\* elementwise ==, as pandas evaluates it: NaN == NaN is False
Eq(a, b) == a # NaN /\ b # NaN /\ a = b

\* Series.nunique(): distinct non-null values
nunique(col) == Cardinality({Cell(col, i) : i \in Rows} \ {NaN})

\* Series.unique(): distinct values in order of first appearance, NaN among them
RECURSIVE UniqueFrom(_, _, _)
UniqueFrom(col, i, seen) ==
    IF i > NRows THEN seen
    ELSE IF \E j \in 1..Len(seen) : seen[j] = Cell(col, i)
         THEN UniqueFrom(col, i + 1, seen)
         ELSE UniqueFrom(col, i + 1, Append(seen, Cell(col, i)))

unique(col) == UniqueFrom(col, 1, <<>>)

(* ----------------------------- describe_df ----------------------------- *)

\* round(num / den * 100, 2) in hundredths: nearest, ties to even
Round2(num, den) ==
    LET q == (num * 10000) \div den
        r == (num * 10000) % den
    IN  IF 2 * r > den THEN q + 1
        ELSE IF 2 * r < den THEN q
        ELSE IF q % 2 = 0 THEN q ELSE q + 1

\* the 'UNIQUE_VALUES' row
UNIQUE_VALUES(col) == nunique(col)

\* the 'CARDIN (%)' row
CARDIN(col) == Round2(nunique(col), NRows)

(* -------------------------- tipifica_variables ------------------------- *)

\* TIPO_SUGERIDO of a row no assignment has reached
SinTipo == "NaN"

Tipos == {"Binaria", "Categórica", "Numérica discreta", "Numérica continua"}

EsCategoricaMutLe(u, umbral_categoria) == u <= umbral_categoria

\* the mask of line 81
EsCategorica(u, umbral_categoria) == u < umbral_categoria

TipoSugeridoMutBinariaFirst(u, cardin, umbral_categoria, umbral_continua) ==
    LET t0 == IF u = 2 THEN "Binaria" ELSE SinTipo
        t1 == IF u >= umbral_categoria /\ cardin > umbral_continua
              THEN "Numérica continua" ELSE t0
        t2 == IF u >= umbral_categoria /\ cardin < umbral_continua
              THEN "Numérica discreta" ELSE t1
        t3 == IF EsCategorica(u, umbral_categoria) THEN "Categórica" ELSE t2
    IN  t3

\* the four masked assignments of lines 79-82, in the order they are made
TipoSugerido(u, cardin, umbral_categoria, umbral_continua) ==
    LET t1 == IF u >= umbral_categoria /\ cardin > umbral_continua
              THEN "Numérica continua" ELSE SinTipo
        t2 == IF u >= umbral_categoria /\ cardin < umbral_continua
              THEN "Numérica discreta" ELSE t1
        t3 == IF EsCategorica(u, umbral_categoria) THEN "Categórica" ELSE t2
        t4 == IF u = 2 THEN "Binaria" ELSE t3
    IN  t4

\* the returned frame: one row per column of the table, in column order
tipifica_variables(cols, umbral_categoria, umbral_continua) ==
    [i \in 1..Len(cols) |->
        [nombre_variable |-> cols[i],
         tipo_sugerido   |-> TipoSugerido(UNIQUE_VALUES(cols[i]), CARDIN(cols[i]),
                                          umbral_categoria, umbral_continua)]]

(* --------------------------- argument values --------------------------- *)

\* a Python value: its type() and, for a number, its value in the unit of the
\* parameter it is passed as
PyFloat(v) == [type |-> "float", v |-> v]
PyInt(v)   == [type |-> "int", v |-> v]
PyStr      == [type |-> "str", v |-> 0]
PyNone     == [type |-> "NoneType", v |-> 0]

\* isinstance(x, (float, int))
IsNumber(x) == x.type \in {"float", "int"}

(* --------------------------- check_parametros -------------------------- *)

\* the value a function returns: None, 'OK', a list, a frame, or no value
\* at all when an exception leaves the function
RetNone      == [kind |-> "None", val |-> <<>>]
RetOK        == [kind |-> "str", val |-> <<"OK">>]
RetList(l)   == [kind |-> "list", val |-> l]
RetFrame(f)  == [kind |-> "DataFrame", val |-> f]
Raised(e)    == [kind |-> "raise", val |-> <<e>>]
NoRet        == [kind |-> "", val |-> <<>>]

\* what check_parametros prints and returns; check is the number of the check
\* that rejected, 0 when none did
Rejected(n, msg) == [ret |-> "None", check |-> n, msg |-> msg]
Accepted         == [ret |-> "OK", check |-> 0, msg |-> ""]
NoVerdict        == [ret |-> "", check |-> 0, msg |-> ""]

\* line 181
MinTargetUnique == 10

ContinuaInvalidaMutIsinstance(umbral_continua) ==
    ~IsNumber(umbral_continua) \/ umbral_continua.v < 0

\* the condition of line 195
ContinuaInvalida(umbral_continua) ==
    umbral_continua.type # "float" \/ umbral_continua.v < 0

\* the condition of line 191
CategoriaInvalida(umbral_categoria) ==
    umbral_categoria.type # "int" \/ umbral_categoria.v < 0

\* the condition of line 187, umbral_corr a number in tenths
CorrInvalida(umbral_corr) == ~(0 <= umbral_corr.v /\ umbral_corr.v <= 10)

\* the condition of lines 200-201, pvalue in hundredths
PvalueInvalido(pvalue) ==
    pvalue.type # "NoneType"
    /\ (~IsNumber(pvalue) \/ ~(0 < pvalue.v /\ pvalue.v < 100))

check_parametrosMutOrder(isDataFrame, cols, target_col, umbral_corr, umbral_categoria, umbral_continua, pvalue) ==
    IF ~isDataFrame
    THEN Rejected(1, "el primer argumento debe ser un DataFrame")
    ELSE IF \A i \in 1..Len(cols) : cols[i] # target_col
    THEN Rejected(2, "la columna no existe en el DataFrame")
    ELSE IF dtype(target_col) # "number"
    THEN Rejected(3, "la columna no es numérica")
    ELSE IF nunique(target_col) < MinTargetUnique
    THEN Rejected(4, "no parece ser una variable continua (baja cardinalidad)")
    ELSE IF CategoriaInvalida(umbral_categoria)
    THEN Rejected(6, "'umbral_categoria' debe ser un número entero")
    ELSE IF CorrInvalida(umbral_corr)
    THEN Rejected(5, "'umbral_corr' debe estar entre 0 y 1")
    ELSE IF ContinuaInvalida(umbral_continua)
    THEN Rejected(7, "'umbral_continua' debe ser un número decimal")
    ELSE IF PvalueInvalido(pvalue)
    THEN Rejected(8, "'pvalue' debe ser un número entre 0 y 1 o None")
    ELSE Accepted

\* lines 166-204: the checks in the order the code makes them, each returning
\* at once when it fails
check_parametros(isDataFrame, cols, target_col, umbral_corr, umbral_categoria, umbral_continua, pvalue) ==
    IF ~isDataFrame
    THEN Rejected(1, "el primer argumento debe ser un DataFrame")
    ELSE IF \A i \in 1..Len(cols) : cols[i] # target_col
    THEN Rejected(2, "la columna no existe en el DataFrame")
    ELSE IF dtype(target_col) # "number"
    THEN Rejected(3, "la columna no es numérica")
    ELSE IF nunique(target_col) < MinTargetUnique
    THEN Rejected(4, "no parece ser una variable continua (baja cardinalidad)")
    ELSE IF CorrInvalida(umbral_corr)
    THEN Rejected(5, "'umbral_corr' debe estar entre 0 y 1")
    ELSE IF CategoriaInvalida(umbral_categoria)
    THEN Rejected(6, "'umbral_categoria' debe ser un número entero")
    ELSE IF ContinuaInvalida(umbral_continua)
    THEN Rejected(7, "'umbral_continua' debe ser un número decimal")
    ELSE IF PvalueInvalido(pvalue)
    THEN Rejected(8, "'pvalue' debe ser un número entre 0 y 1 o None")
    ELSE Accepted

(* ------------------------------ scipy.stats ---------------------------- *)

\* The p-value of a test on samples that are not degenerate is whatever scipy
\* computes from them: any of PVals (hundredths).  What scipy does with
\* degenerate samples is modelled case by case below.
PVals == {5, 50}

\* the result of one call: a p-value (NaN among them) or the exception raised
PValue(p)  == [raise |-> "", p |-> p]
Raises(e)  == [raise |-> e, p |-> NaN]

RECURSIVE SumOver(_, _, _)
\* sum of F[i] over the rows i..NRows that belong to R
SumOver(F, R, i) ==
    IF i > NRows THEN 0
    ELSE (IF i \in R THEN F[i] ELSE 0) + SumOver(F, R, i + 1)

\* df[[target_col, col]].dropna(): the rows where neither cell is null
CompleteRows(target_col, col) ==
    {i \in Rows : Cell(target_col, i) # NaN /\ Cell(col, i) # NaN}

\* n * Sxy - Sx * Sy over the rows R, the numerator of Pearson's r times n
Cov(a, b, R) ==
    Cardinality(R) * SumOver([i \in Rows |-> Cell(a, i) * Cell(b, i)], R, 1)
    - SumOver([i \in Rows |-> Cell(a, i)], R, 1)
      * SumOver([i \in Rows |-> Cell(b, i)], R, 1)

\* pearsonr(x, y) is NaN on a constant input
CorrIsNaN(target_col, col, R) ==
    Cov(target_col, target_col, R) = 0 \/ Cov(col, col, R) = 0

\* abs(corr) >= umbral_corr, umbral_corr in tenths: r * r >= (t / 10) ^ 2
AbsCorrGe(target_col, col, R, t) ==
    /\ ~CorrIsNaN(target_col, col, R)
    /\ \/ t <= 0
       \/ Cov(target_col, col, R) * Cov(target_col, col, R) * 100
            >= t * t * Cov(target_col, target_col, R) * Cov(col, col, R)

\* pearsonr on the rows R: ValueError below two observations, NaN on a
\* constant input, otherwise a p-value
pearsonr(target_col, col, R) ==
    IF Cardinality(R) < 2 THEN {Raises("ValueError")}
    ELSE IF CorrIsNaN(target_col, col, R) THEN {PValue(NaN)}
    ELSE {PValue(p) : p \in PVals}

\* df.loc[df[categoria] == valor]: the rows of one group (none when valor is NaN)
Grupo(categoria, valor) == {i \in Rows : Eq(Cell(categoria, i), valor)}

\* mannwhitneyu(grupo_a, grupo_b): with an empty sample scipy raises ValueError
\* or answers NaN, depending on its version
mannwhitneyu(grupo_a, grupo_b) ==
    IF grupo_a = {} \/ grupo_b = {}
    THEN {Raises("ValueError"), PValue(NaN)}
    ELSE {PValue(p) : p \in PVals}

\* every sample of f_oneway holds one value only
AllConstant(target_col, grupos) ==
    \A j \in 1..Len(grupos) : \A a, b \in grupos[j] :
        Cell(target_col, a) = Cell(target_col, b)

\* f_oneway(*samples): TypeError below two samples; NaN with an empty sample,
\* with one observation per sample, or with all values equal; p = 0 when every
\* sample is constant and the samples differ
f_oneway(target_col, grupos) ==
    IF Len(grupos) < 2 THEN {Raises("TypeError")}
    ELSE IF \E j \in 1..Len(grupos) : grupos[j] = {} THEN {PValue(NaN)}
    ELSE IF \A j \in 1..Len(grupos) : Cardinality(grupos[j]) = 1
    THEN {PValue(NaN)}
    ELSE IF AllConstant(target_col, grupos)
    THEN IF \A j, k \in 1..Len(grupos) : \A a \in grupos[j], b \in grupos[k] :
                Cell(target_col, a) = Cell(target_col, b)
         THEN {PValue(NaN)} ELSE {PValue(0)}
    ELSE {PValue(p) : p \in PVals}

(* ------------------------------- inputs -------------------------------- *)

\* the tables: the column "y" and at most MaxFeatures other columns, in the
\* order of ColumnOrder
Tables ==
    {SelectSeq(ColumnOrder, LAMBDA c : c = "y" \/ c \in S) :
        S \in {T \in SUBSET (ColumnNames \ {"y"}) : Cardinality(T) <= MaxFeatures}}

\* target_col: a numeric column of high cardinality, one of low cardinality,
\* an object column, a name no table has
TargetArgs == {"y", "ylow", "b", "nope"}

\* umbral_corr, tenths
CorrArgs == {PyFloat(0), PyFloat(5), PyFloat(10), PyFloat(15)}

\* umbral_categoria
CategoriaArgs == {PyInt(0), PyInt(2), PyInt(3), PyInt(6), PyInt(NRows),
                  PyInt(0 - 1), PyFloat(6)}

\* umbral_continua, hundredths of a percent; the ratios of columns with 2 and
\* with 3 distinct values are among them
ContinuaArgs == {PyFloat(0), PyFloat(Round2(2, NRows)), PyFloat(Round2(3, NRows)),
                 PyFloat(2500), PyInt(2500), PyFloat(0 - 100), PyStr}

\* pvalue, hundredths
PvalueArgs == {PyNone, PyFloat(5), PyFloat(50), PyFloat(95), PyFloat(100), PyStr}

\* the arguments of a call that takes none yet
NoArgs == [isDataFrame |-> TRUE, target_col |-> "", umbral_corr |-> PyNone,
           umbral_categoria |-> PyNone, umbral_continua |-> PyNone,
           pvalue |-> PyNone]

(* ------------------------- lists, inner calls, plots ------------------- *)

\* columns: the two list objects a plotting function can be passed as its
\* columns argument, the list of the default columns=[] (built once, when
\* the function is defined) and a list of the caller; passed: which of them
\* the call under way was passed
NoLists == [default |-> <<>>, caller |-> <<>>]

\* inner: the call a plotting function makes to a selector: the columns of
\* the frame df[columns] it passes, the thresholds it passes, what the
\* selector returned; NoInner when no such call was made
NoInner == [called |-> FALSE, cols |-> <<>>, umbral_categoria |-> PyNone,
            umbral_continua |-> PyNone, ret |-> NoRet]

\* plotted: the columns drawn against the target; NoPlot when nothing was
NoPlot == [drawn |-> FALSE, x_vars |-> <<>>]

(* --------------------------- a call made twice ------------------------- *)

\* first: the call whose repetition is under way (function, arguments, what
\* it returned, the statistical calls it made); NoFirst when none is
NoFirst == [fn |-> "", args |-> NoArgs, ret |-> NoRet, tests |-> <<>>]

\* a repetition calls the same function with the same arguments
Replay(name) == first # NoFirst => (first.fn = name /\ args' = first.args)

\* scipy is deterministic: a test repeated on the same samples gives the
\* result it gave in the first call
SameAsFirst(test, col, samples, res) ==
    \A j \in 1..Len(first.tests) :
        (first.tests[j].test = test /\ first.tests[j].col = col
         /\ first.tests[j].samples = samples) => first.tests[j].res = res

NuevaListaMutShared == acc

\* columnas_validas = [] (line 227), features_categoricas = [] (line 342): a
\* new list at every call, whatever list an earlier call left behind
NuevaLista == <<>>

(* ------------------------------- actions ------------------------------- *)

Init ==
    /\ df \in {[columns |-> t] : t \in Tables}
    /\ pc = "idle"
    /\ fn = ""
    /\ args = NoArgs
    /\ verdict = NoVerdict
    /\ tipos = <<>>
    /\ lista = <<>>
    /\ idx = 0
    /\ acc = <<>>
    /\ tests = <<>>
    /\ ret = NoRet
    /\ first = NoFirst
    /\ columns = NoLists
    /\ passed = "default"
    /\ inner = NoInner
    /\ plotted = NoPlot

\* tipifica_variables(df, umbral_categoria, umbral_continua), lines 53-88
CallTipifica ==
    /\ pc = "idle"
    /\ \E uc \in {a \in CategoriaArgs : a.type = "int" /\ a.v >= 0},
          ut \in {a \in ContinuaArgs : IsNumber(a) /\ a.v >= 0} :
        /\ args' = [NoArgs EXCEPT !.umbral_categoria = uc, !.umbral_continua = ut]
        /\ Replay("tipifica_variables")
        /\ tipos' = tipifica_variables(df.columns, uc.v, ut.v)
        /\ ret' = RetFrame(tipos')
    /\ fn' = "tipifica_variables"
    /\ pc' = "done"
    /\ UNCHANGED <<plotvars, first, df, verdict, lista, idx, acc, tests>>

\* check_parametros(df, target_col, umbral_corr, umbral_categoria,
\* umbral_continua, pvalue), lines 133-204
CallCheckParametros ==
    /\ pc = "idle"
    /\ first = NoFirst
    /\ \E isdf \in BOOLEAN, t \in TargetArgs, c \in {PyFloat(5), PyFloat(15)},
          uc \in {PyInt(6), PyInt(0 - 1), PyFloat(6)},
          ut \in {PyFloat(2500), PyInt(2500), PyFloat(0 - 100), PyStr},
          pv \in {PyNone, PyFloat(5), PyFloat(100)} :
        /\ args' = [isDataFrame |-> isdf, target_col |-> t, umbral_corr |-> c,
                    umbral_categoria |-> uc, umbral_continua |-> ut, pvalue |-> pv]
        /\ verdict' = check_parametros(isdf, df.columns, t, c, uc, ut, pv)
        /\ ret' = IF verdict'.ret = "OK" THEN RetOK ELSE RetNone
    /\ fn' = "check_parametros"
    /\ pc' = "done"
    /\ UNCHANGED <<plotvars, first, df, tipos, lista, idx, acc, tests>>

num_colsMutReversed(cols, target_col) ==
    LET sel == SelectSeq(cols, LAMBDA c : dtype(c) = "number" /\ c # target_col)
    IN  [i \in 1..Len(sel) |-> sel[Len(sel) + 1 - i]]

\* df.select_dtypes(include=[np.number]).columns.drop(target_col), line 230
num_cols(cols, target_col) ==
    SelectSeq(cols, LAMBDA c : dtype(c) = "number" /\ c # target_col)

\* get_features_num_regression(df, target_col, umbral_corr, pvalue) up to the
\* loop, lines 223-230; check_parametros gets its defaults for the thresholds
\* it is not passed (umbral_categoria = 0, umbral_continua = 0.5)
GetNumStart ==
    /\ pc = "idle"
    /\ \E isdf \in BOOLEAN, t \in TargetArgs \ {"b"}, c \in CorrArgs,
          pv \in PvalueArgs \ {PyStr} :
        /\ args' = [NoArgs EXCEPT !.isDataFrame = isdf, !.target_col = t,
                                  !.umbral_corr = c, !.pvalue = pv]
        /\ Replay("get_features_num_regression")
        /\ verdict' = check_parametros(isdf, df.columns, t, c, PyInt(0),
                                       PyFloat(50), pv)
        /\ IF verdict'.ret # "OK"
           THEN /\ ret' = RetNone
                /\ pc' = "done"
                /\ lista' = <<>>
           ELSE /\ ret' = NoRet
                /\ pc' = "num_loop"
                /\ lista' = num_cols(df.columns, t)
    /\ fn' = "get_features_num_regression"
    /\ idx' = 1
    /\ acc' = NuevaLista
    /\ tests' = <<>>
    /\ UNCHANGED <<plotvars, first, df, tipos>>

\* the condition of lines 241-242 on one test result
NumValida(target_col, col, R, umbral_corr, pvalue, res) ==
    /\ AbsCorrGe(target_col, col, R, umbral_corr.v)
    /\ \/ pvalue.type = "NoneType"
       \/ (res.p # NaN /\ res.p <= 100 - pvalue.v)

\* one turn of the loop of lines 234-243
GetNumStep ==
    /\ pc = "num_loop"
    /\ idx <= Len(lista)
    /\ LET col == lista[idx]
           R   == CompleteRows(args.target_col, col)
       IN  \E res \in pearsonr(args.target_col, col, R) :
            /\ SameAsFirst("pearsonr", col, <<R>>, res)
            /\ tests' = Append(tests, [test |-> "pearsonr", col |-> col,
                                       samples |-> <<R>>, res |-> res])
            /\ IF res.raise # ""
               THEN /\ ret' = Raised(res.raise)
                    /\ pc' = "done"
                    /\ UNCHANGED <<acc, idx>>
               ELSE /\ acc' = IF NumValida(args.target_col, col, R,
                                           args.umbral_corr, args.pvalue, res)
                              THEN Append(acc, col) ELSE acc
                    /\ idx' = idx + 1
                    /\ UNCHANGED <<ret, pc>>
    /\ UNCHANGED <<plotvars, first, df, fn, args, verdict, tipos, lista>>

\* return columnas_validas, line 247
GetNumReturn ==
    /\ pc = "num_loop"
    /\ idx > Len(lista)
    /\ ret' = RetList(acc)
    /\ pc' = "done"
    /\ UNCHANGED <<plotvars, first, df, fn, args, verdict, tipos, lista, idx, acc, tests>>

\* df_tipo.loc[es_catego | es_binaria]['nombre_variable'].to_list(), lines 337-340
lista_categoricas(df_tipo) ==
    LET sel == SelectSeq(df_tipo,
                   LAMBDA r : r.tipo_sugerido \in {"Categórica", "Binaria"})
    IN  [i \in 1..Len(sel) |-> sel[i].nombre_variable]

\* get_features_cat_regression(df, target_col, pvalue, umbral_categoria,
\* umbral_continua) up to the loop, lines 328-342; check_parametros gets its
\* default umbral_corr = 0.5
GetCatStart ==
    /\ pc = "idle"
    /\ \E isdf \in BOOLEAN, t \in TargetArgs \ {"b"},
          pv \in PvalueArgs \ {PyStr},
          uc \in CategoriaArgs \ {PyInt(0 - 1)},
          ut \in {PyFloat(2500), PyInt(2500)} :
        /\ args' = [isDataFrame |-> isdf, target_col |-> t,
                    umbral_corr |-> PyNone, umbral_categoria |-> uc,
                    umbral_continua |-> ut, pvalue |-> pv]
        /\ Replay("get_features_cat_regression")
        /\ verdict' = check_parametros(isdf, df.columns, t, PyFloat(5), uc, ut, pv)
        /\ IF verdict'.ret # "OK"
           THEN /\ ret' = RetNone
                /\ pc' = "done"
                /\ tipos' = <<>>
                /\ lista' = <<>>
           ELSE /\ ret' = NoRet
                /\ pc' = "cat_loop"
                /\ tipos' = tipifica_variables(df.columns, uc.v, ut.v)
                /\ lista' = lista_categoricas(tipos')
    /\ fn' = "get_features_cat_regression"
    /\ idx' = 1
    /\ acc' = NuevaLista
    /\ tests' = <<>>
    /\ UNCHANGED <<plotvars, first, df>>

\* the test of lines 350-375 on one candidate: which test, on which samples
\* (the rows of each group), and the results it can give
CatTest(target_col, categoria) ==
    LET u == unique(categoria)
    IN  IF Len(u) = 2
        THEN LET grupo_a == Grupo(categoria, u[1])
                 grupo_b == Grupo(categoria, u[2])
             IN  [test |-> "mannwhitneyu", samples |-> <<grupo_a, grupo_b>>,
                  results |-> mannwhitneyu(grupo_a, grupo_b)]
        ELSE LET argumento_stats == [j \in 1..Len(u) |-> Grupo(categoria, u[j])]
             IN  [test |-> "f_oneway", samples |-> argumento_stats,
                  results |-> f_oneway(target_col, argumento_stats)]

\* one turn of the loop of lines 346-378; p_valor <= pvalue raises TypeError
\* when pvalue is None
GetCatStep ==
    /\ pc = "cat_loop"
    /\ idx <= Len(lista)
    /\ LET categoria == lista[idx]
           t == CatTest(args.target_col, categoria)
       IN  \E res \in t.results :
            /\ SameAsFirst(t.test, categoria, t.samples, res)
            /\ tests' = Append(tests, [test |-> t.test, col |-> categoria,
                                       samples |-> t.samples, res |-> res])
            /\ IF res.raise # ""
               THEN /\ ret' = Raised(res.raise)
                    /\ pc' = "done"
                    /\ UNCHANGED <<acc, idx>>
               ELSE IF args.pvalue.type = "NoneType"
               THEN /\ ret' = Raised("TypeError")
                    /\ pc' = "done"
                    /\ UNCHANGED <<acc, idx>>
               ELSE /\ acc' = IF res.p # NaN /\ res.p <= args.pvalue.v
                              THEN Append(acc, categoria) ELSE acc
                    /\ idx' = idx + 1
                    /\ UNCHANGED <<ret, pc>>
    /\ UNCHANGED <<plotvars, first, df, fn, args, verdict, tipos, lista>>

\* return features_categoricas, line 380
GetCatReturn ==
    /\ pc = "cat_loop"
    /\ idx > Len(lista)
    /\ ret' = RetList(acc)
    /\ pc' = "done"
    /\ UNCHANGED <<plotvars, first, df, fn, args, verdict, tipos, lista, idx, acc, tests>>

\* the caller takes the result; the next call starts from the same table
Finish ==
    /\ pc = "done"
    /\ pc' = "idle"
    /\ fn' = ""
    /\ args' = NoArgs
    /\ verdict' = NoVerdict
    /\ tipos' = <<>>
    /\ lista' = <<>>
    /\ idx' = 0
    /\ acc' = <<>>
    /\ tests' = <<>>
    /\ ret' = NoRet
    /\ first' = NoFirst
    /\ passed' = "default"
    /\ inner' = NoInner
    /\ plotted' = NoPlot
    /\ UNCHANGED <<df, columns>>

\* the caller keeps the result and makes the same call again, on the same
\* table with the same arguments; what the call left behind is still there
Repeat ==
    /\ pc = "done"
    /\ first = NoFirst
    /\ fn \in {"tipifica_variables", "get_features_num_regression",
               "get_features_cat_regression"}
    /\ first' = [fn |-> fn, args |-> args, ret |-> ret, tests |-> tests]
    /\ pc' = "idle"
    /\ UNCHANGED <<plotvars, df, fn, args, verdict, tipos, lista, idx, acc, tests,
                   ret>>

Next ==
    \/ CallTipifica
    \/ CallCheckParametros
    \/ GetNumStart
    \/ GetNumStep
    \/ GetNumReturn
    \/ GetCatStart
    \/ GetCatStep
    \/ GetCatReturn
    \/ Finish
    \/ Repeat

Spec == Init /\ [][Next]_vars

(* ------------------------- the plotting functions ---------------------- *)

\* longest list of a caller a plotting function is called with
MaxColumnsLen == 5

\* the lists a caller has: an empty one, the columns of its table but the
\* column "y", every column of its table
CallerLists(cols) == {<<>>, SelectSeq(cols, LAMBDA c : c # "y"), cols}

\* target_col of a plot: a column check_parametros accepts, a name no table has
PlotTargetArgs == {"y", "nope"}

\* how many times a list holds a name
Count(l, name) == Cardinality({i \in 1..Len(l) : l[i] = name})

InitPlot ==
    /\ df \in {[columns |-> t] : t \in Tables}
    /\ pc = "idle"
    /\ fn = ""
    /\ args = NoArgs
    /\ verdict = NoVerdict
    /\ tipos = <<>>
    /\ lista = <<>>
    /\ idx = 0
    /\ acc = <<>>
    /\ tests = <<>>
    /\ ret = NoRet
    /\ first = NoFirst
    /\ columns \in {[default |-> <<>>, caller |-> l] : l \in CallerLists(df.columns)}
    /\ passed = "default"
    /\ inner = NoInner
    /\ plotted = NoPlot

\* [variable for variable in df.columns if np.issubdtype(..., np.number)], line 276
columnas_numericas(cols) == SelectSeq(cols, LAMBDA c : dtype(c) = "number")

\* plot_features_num_regression(df, target_col, columns, umbral_corr, pvalue)
\* up to the loop of its call to get_features_num_regression, lines 271-281
\* and 223-230; when that call returns None, line 283 evaluates
\* target_col not in None
PlotNumStart ==
    /\ pc = "idle"
    /\ \E t \in PlotTargetArgs, c \in {PyFloat(0), PyFloat(5)},
          pv \in {PyNone, PyFloat(5)}, obj \in {"default", "caller"} :
        LET outer == check_parametros(TRUE, df.columns, t, c, PyInt(0),
                                      PyFloat(50), pv)
            local == IF Len(columns[obj]) = 0
                     THEN columnas_numericas(df.columns) ELSE columns[obj]
            v     == check_parametros(TRUE, local, t, c, PyInt(0), PyFloat(50), pv)
            call  == [called |-> TRUE, cols |-> local, umbral_categoria |-> PyNone,
                      umbral_continua |-> PyNone, ret |-> NoRet]
        IN  /\ args' = [NoArgs EXCEPT !.target_col = t, !.umbral_corr = c,
                                      !.pvalue = pv]
            /\ passed' = obj
            /\ IF outer.ret # "OK"
               THEN /\ verdict' = outer
                    /\ inner' = NoInner
                    /\ ret' = RetNone
                    /\ pc' = "done"
                    /\ lista' = <<>>
               ELSE IF v.ret # "OK"
               THEN /\ verdict' = v
                    /\ inner' = [call EXCEPT !.ret = RetNone]
                    /\ ret' = Raised("TypeError")
                    /\ pc' = "done"
                    /\ lista' = <<>>
               ELSE /\ verdict' = v
                    /\ inner' = call
                    /\ ret' = NoRet
                    /\ pc' = "num_loop"
                    /\ lista' = num_cols(local, t)
    /\ fn' = "plot_features_num_regression"
    /\ idx' = 1
    /\ acc' = NuevaLista
    /\ tests' = <<>>
    /\ plotted' = NoPlot
    /\ UNCHANGED <<first, df, tipos, columns>>

\* the selector returns its list (line 247); the target is appended to that
\* list and the pair plot drawn, lines 283-286; the function returns None
PlotNumEnd ==
    /\ pc = "num_loop"
    /\ fn = "plot_features_num_regression"
    /\ idx > Len(lista)
    /\ inner' = [inner EXCEPT !.ret = RetList(acc)]
    /\ acc' = IF Count(acc, args.target_col) = 0
              THEN Append(acc, args.target_col) ELSE acc
    /\ plotted' = [drawn |-> TRUE, x_vars |-> acc']
    /\ ret' = RetNone
    /\ pc' = "done"
    /\ UNCHANGED <<first, df, fn, args, verdict, tipos, lista, idx, tests,
                   columns, passed>>

\* plot_features_cat_regression(df, target_col, columns, pvalue,
\* umbral_categoria, umbral_continua) up to the loop of its call to
\* get_features_cat_regression, lines 425-442 and 328-342.  columns.append
\* (line 439) acts on the list the caller passed unless line 437 has bound
\* the name to a new list.  In df[columns] a name held twice gives two
\* columns, and df[target_col].dtype (line 176) raises AttributeError.
PlotCatStart ==
    /\ pc = "idle"
    /\ \E t \in PlotTargetArgs, pv \in {PyNone, PyFloat(5), PyFloat(50)},
          uc \in {PyInt(3), PyInt(6), PyInt(NRows)}, ut \in {PyFloat(2500)},
          obj \in {"default", "caller"} :
        LET outer == check_parametros(TRUE, df.columns, t, PyFloat(5), uc, ut, pv)
            nueva == Len(columns[obj]) = 0
            local == IF nueva
                     THEN lista_categoricas(tipifica_variables(df.columns, uc.v, ut.v))
                     ELSE columns[obj]
            cols  == Append(local, t)
            v     == check_parametros(TRUE, cols, t, PyFloat(5), PyInt(6),
                                      PyFloat(2500), pv)
            call  == [called |-> TRUE, cols |-> cols, umbral_categoria |-> PyInt(6),
                      umbral_continua |-> PyFloat(2500), ret |-> NoRet]
        IN  /\ Len(columns[obj]) < MaxColumnsLen
            /\ args' = [NoArgs EXCEPT !.target_col = t, !.pvalue = pv,
                                      !.umbral_categoria = uc,
                                      !.umbral_continua = ut]
            /\ passed' = obj
            /\ IF outer.ret # "OK"
               THEN /\ verdict' = outer
                    /\ inner' = NoInner
                    /\ ret' = RetNone
                    /\ pc' = "done"
                    /\ tipos' = <<>>
                    /\ lista' = <<>>
                    /\ UNCHANGED columns
               ELSE /\ columns' = IF nueva THEN columns
                                  ELSE [columns EXCEPT ![obj] = cols]
                    /\ inner' = IF Count(cols, t) = 1 /\ v.ret # "OK"
                                THEN [call EXCEPT !.ret = RetNone] ELSE call
                    /\ IF Count(cols, t) > 1
                       THEN /\ verdict' = NoVerdict
                            /\ ret' = Raised("AttributeError")
                            /\ pc' = "done"
                            /\ tipos' = <<>>
                            /\ lista' = <<>>
                       ELSE IF v.ret # "OK"
                       THEN /\ verdict' = v
                            /\ ret' = Raised("TypeError")
                            /\ pc' = "done"
                            /\ tipos' = <<>>
                            /\ lista' = <<>>
                       ELSE /\ verdict' = v
                            /\ ret' = NoRet
                            /\ pc' = "cat_loop"
                            /\ tipos' = tipifica_variables(cols, 6, 2500)
                            /\ lista' = lista_categoricas(tipos')
    /\ fn' = "plot_features_cat_regression"
    /\ idx' = 1
    /\ acc' = NuevaLista
    /\ tests' = <<>>
    /\ plotted' = NoPlot
    /\ UNCHANGED <<first, df>>

\* the selector returns its list (line 380); plt.subplots(len(columnas)) and
\* the loop of lines 445-447: subplots refuses 0 rows (ValueError), gives one
\* Axes, not an array, for 1 row, so that ax[0] raises TypeError, and an
\* array of Axes for more; the function returns None
PlotCatEnd ==
    /\ pc = "cat_loop"
    /\ fn = "plot_features_cat_regression"
    /\ idx > Len(lista)
    /\ inner' = [inner EXCEPT !.ret = RetList(acc)]
    /\ IF Len(acc) = 0
       THEN /\ ret' = Raised("ValueError")
            /\ plotted' = NoPlot
       ELSE IF Len(acc) = 1
       THEN /\ ret' = Raised("TypeError")
            /\ plotted' = NoPlot
       ELSE /\ ret' = RetNone
            /\ plotted' = [drawn |-> TRUE, x_vars |-> acc]
    /\ pc' = "done"
    /\ UNCHANGED <<first, df, fn, args, verdict, tipos, lista, idx, acc, tests,
                   columns, passed>>

NextPlot ==
    \/ PlotNumStart
    \/ GetNumStep
    \/ PlotNumEnd
    \/ PlotCatStart
    \/ GetCatStep
    \/ PlotCatEnd
    \/ Finish

\* calls to the plotting functions, one after the other, by a caller that
\* keeps its list between the calls
SpecPlot == InitPlot /\ [][NextPlot]_vars

(* ------------------------------- claims -------------------------------- *)

\* a classification has been made: by tipifica_variables itself or inside
\* get_features_cat_regression, with the thresholds of args
Classified == tipos # <<>>

UmbralCategoria == args.umbral_categoria.v
UmbralContinua  == args.umbral_continua.v

\* C1: every column with exactly 2 distinct non-null values is typed
\* 'Binaria', whatever the two thresholds are.
C1_BinariaWins ==
    Classified =>
        \A i \in 1..Len(tipos) :
            nunique(tipos[i].nombre_variable) = 2
                => tipos[i].tipo_sugerido = "Binaria"

\* C1 witness: tipifica_variables has typed a two-valued column 'Binaria'
\* under thresholds whose rules alone make it 'Categórica' (umbral_categoria
\* above 2) or 'Numérica continua'.
C1_Witness ==
    /\ fn = "tipifica_variables" /\ pc = "done"
    /\ \E i \in 1..Len(tipos) :
        /\ nunique(tipos[i].nombre_variable) = 2
        /\ tipos[i].tipo_sugerido = "Binaria"
        /\ \/ UmbralCategoria > 2
           \/ (UmbralCategoria <= 2 /\ CARDIN(tipos[i].nombre_variable) > UmbralContinua)

\* C2 as claimed: every column with at least umbral_categoria distinct values,
\* and not 2, is 'Numérica discreta' when its ratio is <= umbral_continua and
\* 'Numérica continua' otherwise, and every column gets one of the four types.
C2_AsClaimed ==
    Classified =>
        \A i \in 1..Len(tipos) :
            LET col == tipos[i].nombre_variable
            IN  /\ tipos[i].tipo_sugerido \in Tipos
                /\ (nunique(col) >= UmbralCategoria /\ nunique(col) # 2)
                    => tipos[i].tipo_sugerido =
                          IF CARDIN(col) <= UmbralContinua
                          THEN "Numérica discreta" ELSE "Numérica continua"

\* C3 as claimed: a column whose count of distinct values equals
\* umbral_categoria is typed 'Numérica discreta' or 'Numérica continua'.
C3_AsClaimed ==
    Classified =>
        \A i \in 1..Len(tipos) :
            nunique(tipos[i].nombre_variable) = UmbralCategoria
                => tipos[i].tipo_sugerido
                      \in {"Numérica discreta", "Numérica continua"}

\* C3 amended: a column whose count of distinct values equals umbral_categoria
\* is never 'Categórica': it is 'Binaria' when the count is 2, otherwise
\* 'Numérica discreta' below umbral_continua, 'Numérica continua' above it and
\* without a type when its ratio equals umbral_continua.
C3_AtThreshold ==
    Classified =>
        \A i \in 1..Len(tipos) :
            LET col == tipos[i].nombre_variable
            IN  nunique(col) = UmbralCategoria
                => /\ tipos[i].tipo_sugerido # "Categórica"
                   /\ tipos[i].tipo_sugerido =
                        IF nunique(col) = 2 THEN "Binaria"
                        ELSE IF CARDIN(col) < UmbralContinua THEN "Numérica discreta"
                        ELSE IF CARDIN(col) > UmbralContinua THEN "Numérica continua"
                        ELSE SinTipo

\* C3 witness: a column with exactly umbral_categoria (not 2) distinct values
\* has been typed numeric.
C3_Witness ==
    /\ fn = "tipifica_variables" /\ pc = "done"
    /\ \E i \in 1..Len(tipos) :
        /\ nunique(tipos[i].nombre_variable) = UmbralCategoria
        /\ UmbralCategoria # 2
        /\ tipos[i].tipo_sugerido \in {"Numérica discreta", "Numérica continua"}

\* the checks of check_parametros as the claim lists them, by number; a check
\* on the target column is evaluated on columns of the table only
CheckFails(n) ==
    CASE n = 1 -> ~args.isDataFrame
      [] n = 2 -> \A i \in 1..Len(df.columns) : df.columns[i] # args.target_col
      [] n = 3 -> args.target_col \in ColumnNames
                  /\ dtype(args.target_col) # "number"
      [] n = 4 -> args.target_col \in ColumnNames
                  /\ Cardinality({Cell(args.target_col, i) : i \in Rows} \ {NaN}) < 10
      [] n = 5 -> args.umbral_corr.v < 0 \/ args.umbral_corr.v > 10
      [] n = 6 -> ~(args.umbral_categoria.type = "int" /\ args.umbral_categoria.v >= 0)
      [] n = 7 -> ~(args.umbral_continua.type = "float" /\ args.umbral_continua.v >= 0)
      [] n = 8 -> /\ args.pvalue.type # "NoneType"
                  /\ ~(args.pvalue.type \in {"float", "int"}
                       /\ 0 < args.pvalue.v /\ args.pvalue.v < 100)

\* the first check that fails, 0 when none does
FirstFailing ==
    IF \E n \in 1..8 : CheckFails(n)
    THEN CHOOSE n \in 1..8 : CheckFails(n) /\ \A m \in 1..(n - 1) : ~CheckFails(m)
    ELSE 0

CheckReturned == fn = "check_parametros" /\ pc = "done"

\* C4: check_parametros rejects with the reason of the first check that
\* fails, in the order 1..8, and returns 'OK' only when every check passes.
C4_FirstFailureReported ==
    CheckReturned =>
        /\ verdict.check = FirstFailing
        /\ (ret = RetOK) <=> (\A n \in 1..8 : ~CheckFails(n))
        /\ (ret # RetOK) => (ret = RetNone /\ verdict.ret = "None")

\* C4 witness: two checks fail at once (umbral_corr out of range and an
\* invalid umbral_categoria, umbral_continua and pvalue) and the earlier one
\* is the one reported.
C4_Witness ==
    /\ CheckReturned
    /\ CheckFails(5) /\ CheckFails(6) /\ CheckFails(7) /\ CheckFails(8)
    /\ verdict.check = 5
    /\ ret = RetNone

\* the checks before the one on umbral_continua have passed
ReachedContinua == CheckReturned /\ verdict.check \notin 1..6

Selector == fn \in {"get_features_num_regression", "get_features_cat_regression"}

SelectorReturned == Selector /\ pc = "done"

\* C6 as claimed: no statistical test runs unless check_parametros accepted;
\* a selector returns None when it rejected and a list when it accepted.
C6_AsClaimed ==
    /\ (Selector /\ tests # <<>>) => verdict.ret = "OK"
    /\ SelectorReturned =>
        /\ (verdict.ret # "OK") => (ret = RetNone /\ tests = <<>>)
        /\ (verdict.ret = "OK") => ret.kind = "list"

\* the numeric columns other than the target, as the claim selects them: the
\* test on the column's complete rows gave abs(corr) >= umbral_corr and,
\* unless pvalue is None, a p-value <= 1 - pvalue
NumQualifies(col) ==
    \E j \in 1..Len(tests) :
        /\ tests[j].col = col
        /\ tests[j].test = "pearsonr"
        /\ tests[j].samples =
              <<{i \in Rows : Cell(col, i) # NaN /\ Cell(args.target_col, i) # NaN}>>
        /\ tests[j].res.raise = ""
        /\ AbsCorrGe(args.target_col, col, tests[j].samples[1], args.umbral_corr.v)
        /\ \/ args.pvalue.type = "NoneType"
           \/ (tests[j].res.p # NaN /\ tests[j].res.p <= 100 - args.pvalue.v)

\* C7 as claimed: for validated input get_features_num_regression returns
\* exactly the numeric columns other than the target that qualify.
C7_AsClaimed ==
    (fn = "get_features_num_regression" /\ pc = "done" /\ verdict.ret = "OK") =>
        ret = RetList(SelectSeq(df.columns,
                  LAMBDA c : dtype(c) = "number" /\ c # args.target_col
                             /\ NumQualifies(c)))

\* C8 as claimed: a candidate with exactly 2 distinct non-null values is
\* tested with Mann-Whitney U on its two groups, one with 3 or more with
\* one-way ANOVA over the groups of its distinct values, and it is included
\* exactly when the p-value is <= pvalue.
C8_AsClaimed ==
    (fn = "get_features_cat_regression" /\ args.pvalue.type = "float") =>
        \A j \in 1..Len(tests) :
            LET col == tests[j].col
                groups == {Grupo(col, v) : v \in {Cell(col, i) : i \in Rows} \ {NaN}}
            IN  /\ nunique(col) = 2 => tests[j].test = "mannwhitneyu"
                /\ nunique(col) >= 3 => tests[j].test = "f_oneway"
                /\ nunique(col) >= 2 =>
                    /\ {tests[j].samples[k] : k \in 1..Len(tests[j].samples)} = groups
                    /\ Len(tests[j].samples) = nunique(col)
                    /\ (j < idx \/ pc = "done") =>
                        ((\E k \in 1..Len(acc) : acc[k] = col)
                            <=> (tests[j].res.raise = "" /\ tests[j].res.p # NaN
                                 /\ args.pvalue.type # "NoneType"
                                 /\ tests[j].res.p <= args.pvalue.v))

\* C9 as claimed: no test runs on a candidate with fewer than 2 distinct
\* values, it is not in the result, and the selection returns a list.
C9_AsClaimed ==
    fn = "get_features_cat_regression" =>
        /\ \A j \in 1..Len(tests) : nunique(tests[j].col) >= 2
        /\ \A k \in 1..Len(acc) : nunique(acc[k]) >= 2
        /\ (pc = "done" /\ verdict.ret = "OK"
            /\ \E i \in 1..Len(lista) : nunique(lista[i]) < 2)
                => ret.kind = "list"

RECURSIVE IsSubsequence(_, _)
\* s can be had from t by deleting elements
IsSubsequence(s, t) ==
    IF s = <<>> THEN TRUE
    ELSE IF t = <<>> THEN FALSE
    ELSE IF Head(s) = Head(t) THEN IsSubsequence(Tail(s), Tail(t))
    ELSE IsSubsequence(s, Tail(t))

NoDuplicates(s) == \A i, j \in 1..Len(s) : s[i] = s[j] => i = j

\* C10: the list a selector builds and returns is a duplicate-free
\* subsequence of the table's columns, in the table's column order.
C10_ColumnOrder ==
    Selector =>
        /\ IsSubsequence(acc, df.columns) /\ NoDuplicates(acc)
        /\ ret.kind = "list" =>
            (IsSubsequence(ret.val, df.columns) /\ NoDuplicates(ret.val))

\* C10 witness: a selector has returned a list of two columns.
C10_Witness ==
    /\ SelectorReturned
    /\ ret.kind = "list"
    /\ Len(ret.val) >= 2

(* ------------------------ claims on repeated calls --------------------- *)

\* the repetition of a call has returned
SecondReturned == pc = "done" /\ first # NoFirst

C15_AsClaimed ==
    fn = "get_features_cat_regression" =>
        /\ \A i \in 1..Len(lista) : lista[i] # args.target_col
        /\ \A j \in 1..Len(tests) : tests[j].col # args.target_col
        /\ \A i \in 1..Len(acc) : acc[i] # args.target_col
        /\ ret.kind = "list" => \A i \in 1..Len(ret.val) : ret.val[i] # args.target_col

(* ---------------------- claims on the plotting functions -------------- *)

\* C12 as claimed: no call to plot_features_num_regression or
\* plot_features_cat_regression changes the elements of the list it was
\* passed as columns, the caller's or the shared default.
C12_AsClaimed == [][columns' = columns]_vars

\* the candidates get_features_cat_regression takes from a frame under given
\* thresholds, lines 333-340
Candidatas(cols, umbral_categoria, umbral_continua) ==
    lista_categoricas(tipifica_variables(cols, umbral_categoria.v, umbral_continua.v))

\* C13 as claimed: plot_features_cat_regression calls
\* get_features_cat_regression with the umbral_categoria and umbral_continua
\* it was passed, so the columns that call tests are the candidates of its
\* frame under the caller's thresholds.
C13_AsClaimed ==
    (fn = "plot_features_cat_regression" /\ inner.called) =>
        /\ inner.umbral_categoria = args.umbral_categoria
        /\ inner.umbral_continua = args.umbral_continua
        /\ pc = "cat_loop" =>
              lista = Candidatas(inner.cols, args.umbral_categoria,
                                 args.umbral_continua)

\* C14 as claimed: when its call to get_features_num_regression returns
\* None, plot_features_num_regression returns (None) without plotting and
\* without raising.
C14_AsClaimed ==
    (fn = "plot_features_num_regression" /\ inner.called /\ inner.ret = RetNone) =>
        (ret = RetNone /\ ~plotted.drawn)

====
